---------------------------- MODULE Spec2Model ----------------------------
(***************************************************************************)
(* A model of joblib/numpy_pickle.py: the Z-file container (write_zfile,   *)
(* read_zfile), the array placeholders (NDArrayWrapper, ZNDArrayWrapper),  *)
(* the pickler that redirects arrays to sibling files (NumpyPickler), the  *)
(* unpickler that puts them back (NumpyUnpickler.load_build) and the two   *)
(* entry points dump and load.  The branches on sys.version_info are       *)
(* those of Python 3.                                                      *)
(*                                                                         *)
(* Every stream (a file's content, a pickle, a compressed body) is a       *)
(* sequence of symbols.  A symbol is a tuple whose first element is a tag: *)
(*   <<"b", n>>      the byte n                                            *)
(*   <<"lit", s>>, <<"raw", s>>, <<"eob">>   codes of a deflate body       *)
(*   <<"op", ...>>   one instruction of a pickle                           *)
(***************************************************************************)
EXTENDS Integers, Sequences, FiniteSets, TLC

(***************************************************************************)
(* Bounds of the model.                                                    *)
(***************************************************************************)
\* the number of bytes the model counts as one KiB (the program's 1024
\* scaled down, so that payloads of two chunks stay small)
KiB == 1
\* payload patterns 0..MaxSeed of the codec specification
MaxSeed == 1
\* at most this many trailing symbols are cut from a Z-file
MaxTrunc == 7

RECURSIVE Pow(_, _)
Pow(x, n) == IF n = 0 THEN 1 ELSE x * Pow(x, n - 1)

(***************************************************************************)
(* Program constants.                                                      *)
(***************************************************************************)
MEGA == Pow(2, 20)
MAX_LEN == 19
ZFILE_PREFIX == << <<"b", 90>>, <<"b", 70>> >>
CHUNK_SIZE == 64 * KiB

B(n) == <<"b", n>>
IsByte(s) == s[1] = "b"

Min(a, b) == IF a < b THEN a ELSE b

\* Python's s[lo:hi] for 0 <= lo, 0 <= hi (0-based, hi exclusive, clipped)
Slice(s, lo, hi) == SubSeq(s, Min(lo, Len(s)) + 1, Min(hi, Len(s)))

(***************************************************************************)
(* hex(n).encode('ascii'), bytes.ljust and int(bytes, 16).                 *)
(***************************************************************************)
HexChar(d) == B(IF d < 10 THEN 48 + d ELSE 87 + d)

RECURSIVE HexDigits(_)
HexDigits(n) ==
    IF n < 16 THEN <<HexChar(n)>>
    ELSE Append(HexDigits(n \div 16), HexChar(n % 16))

hex(n) == <<B(48), B(120)>> \o HexDigits(n)

ljust(s, w) == s \o [i \in 1..(IF Len(s) < w THEN w - Len(s) ELSE 0) |-> B(32)]

IsSpace(s) == IsByte(s) /\ s[2] \in {32, 9, 10, 11, 12, 13}

RECURSIVE lstrip(_)
lstrip(s) == IF s # <<>> /\ IsSpace(s[1]) THEN lstrip(Tail(s)) ELSE s

RECURSIVE rstrip(_)
rstrip(s) ==
    IF s # <<>> /\ IsSpace(s[Len(s)]) THEN rstrip(SubSeq(s, 1, Len(s) - 1))
    ELSE s

\* the value of one hexadecimal digit, -1 when the symbol is none
HexVal(s) ==
    IF ~IsByte(s) THEN -1
    ELSE IF s[2] \in 48..57 THEN s[2] - 48
    ELSE IF s[2] \in 97..102 THEN s[2] - 87
    ELSE IF s[2] \in 65..70 THEN s[2] - 55
    ELSE -1

RECURSIVE HexNumber(_, _)
HexNumber(s, acc) ==
    IF s = <<>> THEN acc
    ELSE IF HexVal(s[1]) < 0 THEN -1
    ELSE HexNumber(Tail(s), 16 * acc + HexVal(s[1]))

Has0x(t) ==
    /\ Len(t) >= 2 /\ IsByte(t[1]) /\ t[1][2] = 48
    /\ IsByte(t[2]) /\ t[2][2] \in {120, 88}

HexValue(d) == IF d = <<>> THEN -1 ELSE HexNumber(d, 0)

Stripped16(t) == HexValue(IF Has0x(t) THEN SubSeq(t, 3, Len(t)) ELSE t)

\* int(s, 16): -1 stands for ValueError
int16(s) == Stripped16(rstrip(lstrip(s)))

(***************************************************************************)
(* zlib, as the program uses it: compressobj(level) with compress and      *)
(* flush, decompressobj() with decompress and flush.  The stream is a two  *)
(* byte header, one code per symbol of the input, an end-of-block code and *)
(* the four bytes of the Adler-32 checksum.  compress holds its last chunk *)
(* back until the next call; decompress gives out every symbol it has      *)
(* decoded and never complains about a stream that ends early.             *)
(***************************************************************************)
Ord(s) == IF IsByte(s) THEN s[2] ELSE Len(s)

\* the sum of Ord over s[lo..hi], each term times its weight: 1 when
\* weighted is FALSE, the number of symbols from it to the end of s otherwise
RECURSIVE SumOrd(_, _, _, _)
SumOrd(s, lo, hi, weighted) ==
    IF lo > hi THEN 0
    ELSE IF lo = hi
    THEN Ord(s[lo]) * (IF weighted THEN Len(s) - lo + 1 ELSE 1)
    ELSE SumOrd(s, lo, (lo + hi) \div 2, weighted)
         + SumOrd(s, (lo + hi) \div 2 + 1, hi, weighted)

\* the Adler-32 sums <<a, b>> after the symbols s, from the sums ab
Adler(ab, s) ==
    <<(ab[1] + SumOrd(s, 1, Len(s), FALSE)) % 65521,
      (ab[2] + Len(s) * ab[1] + SumOrd(s, 1, Len(s), TRUE)) % 65521>>

AdlerBytes(ab) ==
    <<B(ab[2] \div 256), B(ab[2] % 256), B(ab[1] \div 256), B(ab[1] % 256)>>

ZlibFlg(level) ==
    IF level <= 1 THEN 1 ELSE IF level <= 5 THEN 94
    ELSE IF level = 6 THEN 156 ELSE 218

ZlibHeader(level) == <<B(120), B(ZlibFlg(level))>>

Codes(level, s) ==
    [i \in 1..Len(s) |-> <<(IF level = 0 THEN "raw" ELSE "lit"), s[i]>>]

compressobj(level) ==
    [level |-> level, started |-> FALSE, pending |-> <<>>, adler |-> <<1, 0>>]

\* compresser.compress(chunk): the new state and the bytes given out
compresser_compress(c, chunk) ==
    IF chunk = <<>> THEN [obj |-> c, out |-> <<>>]
    ELSE [obj |-> [c EXCEPT !.started = TRUE, !.pending = chunk,
                            !.adler = Adler(c.adler, chunk)],
          out |-> (IF c.started THEN <<>> ELSE ZlibHeader(c.level))
                  \o Codes(c.level, c.pending)]

\* compresser.flush()
compresser_flush(c) ==
    (IF c.started THEN <<>> ELSE ZlibHeader(c.level))
    \o Codes(c.level, c.pending) \o << <<"eob">> >> \o AdlerBytes(c.adler)

decompressobj ==
    [phase |-> "hdr", held |-> <<>>, adler |-> <<1, 0>>, err |-> FALSE]

ValidZlibHeader(h) ==
    /\ IsByte(h[1]) /\ IsByte(h[2]) /\ h[1][2] = 120
    /\ (256 * h[1][2] + h[2][2]) % 31 = 0

\* the first two bytes of a stream are its header; s is what decompress has
\* done so far: the decompresser d and the number n of symbols of z it has read
HeaderRead(d, hdr, n) ==
    IF Len(hdr) < 2 THEN [d |-> [d EXCEPT !.held = hdr], n |-> n]
    ELSE IF ~ValidZlibHeader(hdr) THEN [d |-> [d EXCEPT !.err = TRUE], n |-> n]
    ELSE [d |-> [d EXCEPT !.phase = "body", !.held = <<>>], n |-> n]

TakeHeader(d, z) ==
    IF d.phase # "hdr" THEN [d |-> d, n |-> 0]
    ELSE HeaderRead(d, d.held \o SubSeq(z, 1, Min(2 - Len(d.held), Len(z))),
                    Min(2 - Len(d.held), Len(z)))

\* the position in z of the first symbol after position n that is no code of
\* the body, Len(z) + 1 when there is none
CodeEnd(z, n) ==
    LET notcode == {i \in (n + 1)..Len(z) : z[i][1] \notin {"lit", "raw"}}
    IN IF notcode = {} THEN Len(z) + 1
       ELSE CHOOSE i \in notcode : \A j \in notcode : i <= j

\* the codes of the body give their symbols out; the end-of-block code ends
\* the body, anything else is an error
BodyOut(d, z, stop, out) ==
    [d |-> [d EXCEPT !.adler = Adler(@, out),
                     !.phase = IF stop <= Len(z) /\ z[stop][1] = "eob"
                               THEN "trailer" ELSE "body",
                     !.err = stop <= Len(z) /\ z[stop][1] # "eob"],
     n |-> Min(stop, Len(z)),
     out |-> out]

BodyRead(d, z, n, stop) ==
    BodyOut(d, z, stop, [k \in 1..(stop - n - 1) |-> z[n + k][2]])

TakeBody(s, z) ==
    IF s.d.err \/ s.d.phase # "body" THEN [d |-> s.d, n |-> s.n, out |-> <<>>]
    ELSE BodyRead(s.d, z, s.n, CodeEnd(z, s.n))

\* the four bytes after the body are the checksum of what was given out
TrailerRead(d, tr, out) ==
    IF Len(tr) < 4 THEN [obj |-> [d EXCEPT !.held = tr], out |-> out]
    ELSE [obj |-> [d EXCEPT !.phase = "done", !.held = <<>>,
                            !.err = tr # AdlerBytes(d.adler)],
          out |-> out]

TakeTrailer(s, z) ==
    IF s.d.err \/ s.d.phase # "trailer" THEN [obj |-> s.d, out |-> s.out]
    ELSE TrailerRead(s.d,
                     s.d.held \o SubSeq(z, s.n + 1,
                                        s.n + Min(4 - Len(s.d.held),
                                                  Len(z) - s.n)),
                     s.out)

\* decompresser.decompress(zchunk): the new state and the symbols decoded;
\* obj.err stands for zlib.error
decompresser_decompress(d, z) ==
    IF d.err \/ d.phase = "done" \/ z = <<>> THEN [obj |-> d, out |-> <<>>]
    ELSE TakeTrailer(TakeBody(TakeHeader(d, z), z), z)

\* decompresser.flush(): decompress left nothing behind
decompresser_flush(d) == <<>>

(***************************************************************************)
(* numpy arrays.  An array is a record: its type (ndarray, matrix or       *)
(* memmap), its shape (one or two dimensions), its dtype, whether its      *)
(* memory is laid out column by column (forder), and its elements in       *)
(* memory order.  The elements are mem when seed < 0 and are generated     *)
(* from seed otherwise (the element of C index j is GenValue(seed, j)).    *)
(***************************************************************************)
Itemsize(dtype) == IF dtype = "f8" THEN 8 ELSE 1

Size(a) == IF Len(a.shape) = 1 THEN a.shape[1] ELSE a.shape[1] * a.shape[2]

Nbytes(a) == Size(a) * Itemsize(a.dtype)

GenValue(seed, j) == (seed + 3 * j) % 251

\* the memory position (from 1) of the element of C index j (from 1)
MemPos(a, j) ==
    IF a.forder /\ Len(a.shape) = 2
    THEN ((j - 1) % a.shape[2]) * a.shape[1] + ((j - 1) \div a.shape[2]) + 1
    ELSE j

\* the C index of the element at memory position m
CIndex(a, m) ==
    IF a.forder /\ Len(a.shape) = 2
    THEN ((m - 1) % a.shape[1]) * a.shape[2] + ((m - 1) \div a.shape[1]) + 1
    ELSE m

\* the buffer of the array, element by element
Mem(a) ==
    IF a.seed < 0 THEN a.mem
    ELSE [m \in 1..Size(a) |-> GenValue(a.seed, CIndex(a, m))]

\* array.flat[lo:hi]: the elements in C (row-major) order
FlatSlice(a, lo, hi) ==
    [k \in 1..(Min(hi, Size(a)) - Min(lo, Size(a))) |->
        IF a.seed < 0 THEN a.mem[MemPos(a, Min(lo, Size(a)) + k)]
        ELSE GenValue(a.seed, Min(lo, Size(a)) + k)]

Flat(a) == FlatSlice(a, 0, Size(a))

\* byte k (from 0) of the element v; the elements of the model are below
\* 2^24, so that the bytes from the fourth on are 0
ByteOf(v, k) == IF k >= 3 THEN 0 ELSE (v \div Pow(256, k)) % 256

\* the bytes of elements of width w, little endian
ElemBytes(elems, w) ==
    [i \in 1..(Len(elems) * w) |->
        B(ByteOf(elems[((i - 1) \div w) + 1], (i - 1) % w))]

RECURSIVE LittleEndian(_)
LittleEndian(bs) ==
    IF bs = <<>> THEN 0 ELSE bs[1][2] + 256 * LittleEndian(Tail(bs))

\* the elements of width w a buffer of bytes holds
BytesElems(buf, w) ==
    [k \in 1..(Len(buf) \div w) |->
        LittleEndian(SubSeq(buf, (k - 1) * w + 1, k * w))]

flags_f_contiguous(a) == a.forder \/ Len(a.shape) = 1 \/ Size(a) = 0
flags_c_contiguous(a) == ~a.forder \/ Len(a.shape) = 1 \/ Size(a) = 0

(***************************************************************************)
(* The Z-file container.  `data` is either a bytes object,                 *)
(* [kind |-> "bytes", b |-> <symbols>], or an array,                       *)
(* [kind |-> "array", a |-> <array>].                                      *)
(***************************************************************************)
Bytes(b) == [kind |-> "bytes", b |-> b]
ArrayData(a) == [kind |-> "array", a |-> a]

\* data.nbytes if hasattr(data, 'nbytes') else len(data)
DataLength(data) ==
    IF data.kind = "array" THEN Nbytes(data.a) ELSE Len(data.b)

\* data[i*_CHUNK_SIZE:(i+1)*_CHUNK_SIZE] as the buffer compress is given; for
\* an array data is data.flat, and the slice counts elements
DataChunk(data, i) ==
    IF data.kind = "array"
    THEN ElemBytes(FlatSlice(data.a, i * CHUNK_SIZE, (i + 1) * CHUNK_SIZE),
                   Itemsize(data.a.dtype))
    ELSE Slice(data.b, i * CHUNK_SIZE, (i + 1) * CHUNK_SIZE)

\* the output of one turn of a loop, put before what the turns after it give
JoinOut(out, rest) == [obj |-> rest.obj, out |-> out \o rest.out]

\* the loop of write_zfile from its i-th turn on: what it writes, and the
\* compresser it leaves
RECURSIVE WriteChunks(_, _, _, _)
WriteNext(one, data, i, n) == JoinOut(one.out, WriteChunks(one.obj, data, i, n))

WriteChunks(c, data, i, n) ==
    IF i >= n THEN [obj |-> c, out |-> <<>>]
    ELSE WriteNext(compresser_compress(c, DataChunk(data, i)), data, i + 1, n)

\* the header of a Z-file, then what the loop wrote, then the flush
WriteAll(data_length, loop) ==
    ZFILE_PREFIX \o ljust(hex(data_length), MAX_LEN)
    \o loop.out \o compresser_flush(loop.obj)

WriteLength(data, level, data_length) ==
    WriteAll(data_length,
             WriteChunks(compressobj(level), data, 0,
                         data_length \div CHUNK_SIZE + 1))

\* write_zfile with a loop of data_length // _CHUNK_SIZE turns, one too few
write_zfile_floor(data, level) ==
    WriteAll(DataLength(data),
             WriteChunks(compressobj(level), data, 0,
                         DataLength(data) \div CHUNK_SIZE))

\* what write_zfile(file_handle, data, compress) writes to the handle
write_zfile(data, level) == WriteLength(data, level, DataLength(data))

\* _read_magic(file_handle)
read_magic(f) == Slice(f, 0, Len(ZFILE_PREFIX))

ZOk(buf) == [ok |-> TRUE, err |-> "", buf |-> buf]
ZErr(e) == [ok |-> FALSE, err |-> e, buf |-> <<>>]

\* the loop of read_zfile from file position pos on: the decompresser it
\* leaves and the buffer it has filled
RECURSIVE ReadChunks(_, _, _)
ReadNext(one, f, pos) == JoinOut(one.out, ReadChunks(one.obj, f, pos))

ReadChunk(d, f, pos, zchunk) ==
    IF zchunk = <<>> THEN [obj |-> d, out |-> <<>>]
    ELSE ReadNext(decompresser_decompress(d, zchunk), f, pos + CHUNK_SIZE)

ReadChunks(d, f, pos) == ReadChunk(d, f, pos, Slice(f, pos, pos + CHUNK_SIZE))

\* the end of read_zfile: the buffer, if it has the length the header said
ReadLength(length, err, write_buf) ==
    IF length < 0 THEN ZErr("ValueError")
    ELSE IF err THEN ZErr("zlib.error")
    ELSE IF Len(write_buf) # length THEN ZErr("AssertionError: length")
    ELSE ZOk(write_buf)

ReadAll(length, loop) ==
    ReadLength(length, loop.obj.err, loop.out \o decompresser_flush(loop.obj))

ReadHeader(f, hdr) ==
    ReadAll(int16(Slice(hdr, Len(ZFILE_PREFIX), Len(hdr))),
            ReadChunks(decompressobj, f, Len(ZFILE_PREFIX) + MAX_LEN))

\* read_zfile(file_handle) on a handle of content f: the buffer, or the
\* exception
read_zfile(f) ==
    IF read_magic(f) # ZFILE_PREFIX THEN ZErr("AssertionError: magic")
    ELSE ReadHeader(f, Slice(f, 0, Len(ZFILE_PREFIX) + MAX_LEN))

(***************************************************************************)
(* The state.  The codec specification (SpecZ) drives write_zfile and      *)
(* read_zfile alone over payloads of bytes; the other one (Spec) drives    *)
(* dump and load.                                                          *)
(***************************************************************************)
VARIABLES
    zpc,        \* SpecZ: "init", "written", "cut", "read" ("off" in Spec)
    zdata,      \* SpecZ: the payload, a sequence of bytes
    zlevel,     \* SpecZ: the compression level
    zfile,      \* SpecZ: the content of the Z-file
    zcut,       \* SpecZ: how many symbols the file lost after it was written
    zres,       \* SpecZ: what read_zfile returned or raised
    pc,         \* where dump and load stand ("off" in SpecZ)
    args,       \* the arguments of dump: value, filename, compress, cache_size
    pickler,    \* the NumpyPickler of the dump
    disk,       \* the files: a function from file names to contents
    log,        \* what each save step of an array did
    dumpret,    \* the list dump returned
    cut,        \* the file that was truncated between dump and load, if any
    handles,    \* the file handles load has opened
    unpickler,  \* the NumpyUnpickler of the load
    heap,       \* the objects the unpickler has built
    loadret     \* what load returned or raised

zvars == <<zpc, zdata, zlevel, zfile, zcut, zres>>
pvars == <<pc, args, pickler, disk, log, dumpret, cut, handles, unpickler,
           heap, loadret>>
vars == <<zvars, pvars>>

Idle == <<>>

POff ==
    /\ pc = "off" /\ args = Idle /\ pickler = Idle /\ disk = Idle
    /\ log = Idle /\ dumpret = Idle /\ cut = Idle /\ handles = Idle
    /\ unpickler = Idle /\ heap = Idle /\ loadret = Idle

ZOff ==
    /\ zpc = "off" /\ zdata = Idle /\ zlevel = 0 /\ zfile = Idle
    /\ zcut = 0 /\ zres = Idle

(***************************************************************************)
(* SpecZ: a payload is written with write_zfile, the file may lose some    *)
(* symbols of its end, and read_zfile reads it.                            *)
(***************************************************************************)
\* the payload of n bytes of pattern seed
Payload(n, seed) == [i \in 1..n |-> B((seed + 7 * i) % 256)]

ZLengths ==
    {0, 1, 2, CHUNK_SIZE - 1, CHUNK_SIZE, CHUNK_SIZE + 1, 2 * CHUNK_SIZE,
     2 * CHUNK_SIZE + 1}

Levels == 0..9

ZInit ==
    /\ zpc = "init"
    /\ zdata \in {Payload(n, seed) : n \in ZLengths, seed \in 0..MaxSeed}
    /\ zlevel \in Levels
    /\ zfile = <<>>
    /\ zcut = 0
    /\ zres = Idle
    /\ POff

ZWrite ==
    /\ zpc = "init"
    /\ zfile' = write_zfile(Bytes(zdata), zlevel)
    /\ zpc' = "written"
    /\ UNCHANGED <<zdata, zlevel, zcut, zres, pvars>>

\* the length of the header of a Z-file: the magic and the length field
ZHeaderLen == Len(ZFILE_PREFIX) + MAX_LEN

\* content f without the last k symbols of its compressed body
Truncated(f, k) == SubSeq(f, 1, Len(f) - k)

ZTruncate ==
    /\ zpc = "written"
    /\ \E k \in 1..MaxTrunc :
        /\ k <= Len(zfile) - ZHeaderLen
        /\ zfile' = Truncated(zfile, k)
        /\ zcut' = k
    /\ zpc' = "cut"
    /\ UNCHANGED <<zdata, zlevel, zres, pvars>>

ZRead ==
    /\ zpc \in {"written", "cut"}
    /\ zres' = read_zfile(zfile)
    /\ zpc' = "read"
    /\ UNCHANGED <<zdata, zlevel, zfile, zcut, pvars>>

ZNext == ZWrite \/ ZTruncate \/ ZRead

SpecZ == ZInit /\ [][ZNext]_vars

(***************************************************************************)
(* File names are sequences of characters.                                 *)
(***************************************************************************)
\* the position of the last "/" of path p, 0 when it has none
LastSlash(p) ==
    LET at == {i \in 1..Len(p) : p[i] = "/"}
    IN IF at = {} THEN 0 ELSE CHOOSE i \in at : \A j \in at : j <= i

\* os.path.basename, os.path.dirname, os.path.join
basename(p) == SubSeq(p, LastSlash(p) + 1, Len(p))
dirname(p) == SubSeq(p, 1, LastSlash(p) - 1)
join(d, n) ==
    IF d = <<>> THEN n
    ELSE IF d[Len(d)] = "/" THEN d \o n ELSE d \o <<"/">> \o n

DigitChar(d) == <<"0", "1", "2", "3", "4", "5", "6", "7", "8", "9">>[d + 1]

RECURSIVE Decimal(_)
Decimal(n) ==
    IF n < 10 THEN <<DigitChar(n)>>
    ELSE Append(Decimal(n \div 10), DigitChar(n % 10))

\* '%i' % n: the counter without its padding
Fmt02i_nopad(n) == Decimal(n)

\* '%02i' % n
Fmt02i(n) == IF n < 10 THEN <<"0">> \o Decimal(n) ELSE Decimal(n)

\* '%s_%02i.npy' % (filename, counter)
NpyName(filename, counter) ==
    filename \o <<"_">> \o Fmt02i(counter) \o <<".", "n", "p", "y">>

(***************************************************************************)
(* The values dump is given.  A value is <<"int", n>>, <<"str", s>>,       *)
(* <<"arr", i>> (the i-th array of Arrays: two occurrences of one i are    *)
(* two references to one array object), <<"list", values>> or              *)
(* <<"dict", pairs>> with each pair <<key, value>>.                        *)
(***************************************************************************)
\* the longest list among the inputs drawn freely
MaxItems == 2
\* at most this many writes of a sibling file raise during one dump
MaxRaises == 2

Array(type, shape, dtype, forder, seed) ==
    [type |-> type, shape |-> shape, dtype |-> dtype, forder |-> forder,
     seed |-> seed, mem |-> <<>>]

Arrays ==
    << Array("ndarray", <<0>>, "u1", FALSE, 0),
       Array("ndarray", <<3, 3>>, "f8", TRUE, 5),
       Array("matrix", <<1, 2>>, "u1", FALSE, 9),
       Array("memmap", <<2>>, "u1", FALSE, 4),
       Array("ndarray", <<1000, 1000>>, "f8", FALSE, 1) >>

BigArray == Len(Arrays)

Items == {<<"int", 1>>, <<"arr", 1>>, <<"arr", 2>>, <<"arr", 3>>}

ListValues ==
    {<<"list", items>> : items \in UNION {[1..n -> Items] : n \in 0..MaxItems}}

Args(value, filename, compress, cache_size) ==
    [value |-> value, filename |-> filename, compress |-> compress,
     cache_size |-> cache_size]

\* {"a": [1, 2, 3], "arr": <float64 array of shape (1000, 1000)>}
ScenarioDict ==
    <<"dict", << <<"a", <<"list", <<<<"int", 1>>, <<"int", 2>>, <<"int", 3>>>>>> >>,
                 <<"arr", <<"arr", BigArray>> >> >> >>

\* eleven references to arrays, so that the counter gets a second digit
ScenarioMany == <<"list", [i \in 1..11 |-> <<"arr", 1 + 2 * (i % 2)>>]>>

Inputs ==
    {Args(v, <<"d", "/", "f">>, c[1], c[2]) :
        v \in ListValues, c \in {<<0, 100>>, <<3, 0>>, <<3, 1>>}}
    \cup {Args(<<"list", <<<<"arr", 4>>, <<"arr", 4>>>>>>, <<"f">>, 3, 1),
          Args(<<"list", <<<<"arr", 2>>>>>>, <<"f">>, 9, 0),
          Args(ScenarioDict, <<"d", "/", "f">>, 5, 100),
          Args(ScenarioMany, <<"f">>, 0, 100)}

RECURSIVE Events(_)
RECURSIVE EventsOfItems(_)
RECURSIVE EventsOfPairs(_)
\* the calls of save a value leads to, in order, with the ends of the
\* containers
Events(v) ==
    IF v[1] = "list"
    THEN << <<"open", "list">> >> \o EventsOfItems(v[2])
         \o << <<"close", "list">> >>
    ELSE IF v[1] = "dict"
    THEN << <<"open", "dict">> >> \o EventsOfPairs(v[2])
         \o << <<"close", "dict">> >>
    ELSE <<v>>
EventsOfItems(items) ==
    IF items = <<>> THEN <<>>
    ELSE Events(items[1]) \o EventsOfItems(Tail(items))
EventsOfPairs(pairs) ==
    IF pairs = <<>> THEN <<>>
    ELSE << <<"str", pairs[1][1]>> >> \o Events(pairs[1][2])
         \o EventsOfPairs(Tail(pairs))

(***************************************************************************)
(* Pickles.                                                                *)
(***************************************************************************)
Op(name) == <<"op", name>>
Op1(name, x) == <<"op", name, x>>

\* numpy.save(filename, array): the content of the .npy file
np_save(a) ==
    LET fortran_order == flags_f_contiguous(a) /\ ~flags_c_contiguous(a)
    IN << <<"npy", a.shape, fortran_order, a.dtype>> >>
       \o ElemBytes(IF fortran_order THEN Mem(a) ELSE Flat(a),
                    Itemsize(a.dtype))

\* NumpyPickler._write_array(array, filename): the container, the file name
\* and the content of the file it writes
write_array(a, filename, compress) ==
    IF compress = 0
    THEN [container |-> <<"NDArrayWrapper",
                          [filename |-> basename(filename),
                           subclass |-> a.type]>>,
          filename |-> filename,
          content |-> np_save(a)]
    ELSE LET zname == filename \o <<".", "z">>
         IN [container |-> <<"ZNDArrayWrapper",
                  [filename |-> basename(zname),
                   init_args |-> <<a.type, a.shape, "b">>,
                   state |-> <<1, <<0>>, a.dtype,
                               flags_f_contiguous(a) /\ ~flags_c_contiguous(a),
                               "">>]>>,
              filename |-> zname,
              content |-> write_zfile(ArrayData(a), compress)]

\* the index (from 1) of key in the memo, 0 when it is not there
MemoIndex(memo, key) ==
    LET at == {i \in 1..Len(memo) : memo[i] = key}
    IN IF at = {} THEN 0 ELSE CHOOSE i \in at : TRUE

\* Pickler.save(self, obj) for a placeholder: it is built from its class and
\* its state
PickleContainer(container) ==
    <<Op1("NEWOBJ", container[1]), Op("MEMOIZE"), Op1("STATE", container[2]),
      Op("BUILD")>>

\* Pickler.save(self, obj) for an array: ndarray.__reduce__ gives its class
\* and its state
PickleArray(a) ==
    <<Op1("REDUCE", a.type), Op("MEMOIZE"), Op1("STATE", a), Op("BUILD")>>

\* Pickler.save(self, obj) for anything else
PickleEvent(e) ==
    IF e[1] = "int" THEN <<Op1("INT", e[2])>>
    ELSE IF e[1] = "str" THEN <<Op1("STR", e[2])>>
    ELSE IF e[1] = "open"
    THEN <<Op(IF e[2] = "list" THEN "EMPTY_LIST" ELSE "EMPTY_DICT"),
           Op("MEMOIZE"), Op("MARK")>>
    ELSE <<Op(IF e[2] = "list" THEN "APPENDS" ELSE "SETITEMS")>>

(***************************************************************************)
(* dump: NumpyPickler.__init__, then one step per call of save, then      *)
(* NumpyPickler.close and the return.                                      *)
(***************************************************************************)
Init ==
    /\ pc = "start"
    /\ args \in Inputs
    /\ pickler = Idle
    /\ disk = <<>>
    /\ log = <<>>
    /\ dumpret = <<>>
    /\ cut = <<>>
    /\ handles = <<>>
    /\ unpickler = Idle
    /\ heap = <<>>
    /\ loadret = Idle
    /\ ZOff

\* dump with a pickler whose list of file names starts empty
DumpStart_no_main ==
    /\ pc = "start"
    /\ pickler' = [npy_counter |-> 0, filenames |-> <<>>,
                   file |-> <<Op("PROTO")>>, memo |-> <<>>, pos |-> 1]
    /\ disk' = IF args.compress = 0 THEN (args.filename :> <<>>) @@ disk
               ELSE disk
    /\ pc' = "saving"
    /\ UNCHANGED <<args, log, dumpret, cut, handles, unpickler, heap, loadret,
                   zvars>>

\* dump up to the first call of save: the pickler is made (the main file is
\* opened when there is no compression) and Pickler.dump writes the protocol
DumpStart ==
    /\ pc = "start"
    /\ pickler' = [npy_counter |-> 0, filenames |-> <<args.filename>>,
                   file |-> <<Op("PROTO")>>, memo |-> <<>>, pos |-> 1]
    /\ disk' = IF args.compress = 0 THEN (args.filename :> <<>>) @@ disk
               ELSE disk
    /\ pc' = "saving"
    /\ UNCHANGED <<args, log, dumpret, cut, handles, unpickler, heap, loadret,
                   zvars>>

\* Pickler.save(self, obj) of an object the memo knows under key: a
\* reference to it when it is in the memo, its pickle `ops` otherwise
PicklerSave(p, key, ops) ==
    IF MemoIndex(p.memo, key) > 0
    THEN [p EXCEPT !.file = Append(@, Op1("GET", MemoIndex(p.memo, key)))]
    ELSE [p EXCEPT !.file = @ \o ops, !.memo = Append(@, key)]

\* the test of the size with <= for <
KeepInline_le(compress, cache_size, a) ==
    compress # 0 /\ Size(a) * Itemsize(a.dtype) <= cache_size * MEGA

\* the test of NumpyPickler.save on the size of the array: TRUE when the
\* array stays in the pickle
KeepInline(compress, cache_size, a) ==
    compress # 0 /\ Size(a) * Itemsize(a.dtype) < cache_size * MEGA

IsArrayType(type) == type \in {"ndarray", "matrix", "memmap"}

\* the branch of NumpyPickler.save that pickles the array as it is; a memmap
\* is copied by np.asarray first, so that the memo does not know the copy
SaveInline(p, d, a, id) ==
    [pickler |-> PicklerSave(p,
                             IF a.type = "memmap" THEN <<"t", p.pos>>
                             ELSE <<"a", id>>,
                             PickleArray(IF a.type = "memmap"
                                         THEN [a EXCEPT !.type = "ndarray"]
                                         ELSE a)),
     disk |-> d, route |-> "inline", raised |-> FALSE]

\* the branch with the file name put on the list before the file is
\* written, and left there when the write raises
SaveExtern_listed_first(p, d, a, id, outcome, counter, w) ==
    IF outcome = "ok"
    THEN [pickler |->
              PicklerSave([p EXCEPT !.npy_counter = counter,
                                    !.filenames = Append(@, w.filename)],
                          <<"w", p.pos>>, PickleContainer(w.container)),
          disk |-> (w.filename :> w.content) @@ d,
          route |-> "extern", raised |-> FALSE]
    ELSE [pickler |->
              PicklerSave([p EXCEPT !.npy_counter = counter - 1,
                                    !.filenames = Append(@, w.filename)],
                          <<"a", id>>, PickleArray(a)),
          disk |-> IF outcome = "partial"
                   THEN (w.filename :> Slice(w.content, 0, 2)) @@ d
                   ELSE d,
          route |-> "extern", raised |-> TRUE]

\* the branch with an except clause that leaves the counter as it is
SaveExtern_no_rollback(p, d, a, id, outcome, counter, w) ==
    IF outcome = "ok"
    THEN [pickler |->
              PicklerSave([p EXCEPT !.npy_counter = counter,
                                    !.filenames = Append(@, w.filename)],
                          <<"w", p.pos>>, PickleContainer(w.container)),
          disk |-> (w.filename :> w.content) @@ d,
          route |-> "extern", raised |-> FALSE]
    ELSE [pickler |->
              PicklerSave([p EXCEPT !.npy_counter = counter],
                          <<"a", id>>, PickleArray(a)),
          disk |-> IF outcome = "partial"
                   THEN (w.filename :> Slice(w.content, 0, 2)) @@ d
                   ELSE d,
          route |-> "extern", raised |-> TRUE]

\* the branch of NumpyPickler.save that writes the array to a file of its
\* own: counter is the counter after its increment, w what _write_array
\* gives.  outcome says how _write_array ends: "ok", "raise" (it raises
\* before the file is made) or "partial" (it raises with the file half
\* written)
SaveExtern(p, d, a, id, outcome, counter, w) ==
    IF outcome = "ok"
    THEN [pickler |->
              PicklerSave([p EXCEPT !.npy_counter = counter,
                                    !.filenames = Append(@, w.filename)],
                          <<"w", p.pos>>, PickleContainer(w.container)),
          disk |-> (w.filename :> w.content) @@ d,
          route |-> "extern", raised |-> FALSE]
    ELSE [pickler |->
              PicklerSave([p EXCEPT !.npy_counter = counter - 1],
                          <<"a", id>>, PickleArray(a)),
          disk |-> IF outcome = "partial"
                   THEN (w.filename :> Slice(w.content, 0, 2)) @@ d
                   ELSE d,
          route |-> "extern", raised |-> TRUE]

\* NumpyPickler.save(obj) for the array of index id, met at event pos.
\* Gives the pickler, the disk and what the step did.
SaveArray(p, d, a, id, outcome) ==
    IF KeepInline(args.compress, args.cache_size, a)
    THEN SaveInline(p, d, a, id)
    ELSE SaveExtern(p, d, a, id, outcome, p.npy_counter + 1,
                    write_array(a, NpyName(args.filename, p.npy_counter + 1),
                                args.compress))

TheEvents == Events(args.value)

\* what the log keeps of the save step r of the array id by the pickler p
LogEntry(p, id, r) ==
    [pos |-> p.pos, id |-> id, route |-> r.route, raised |-> r.raised,
     counter0 |-> p.npy_counter, counter1 |-> r.pickler.npy_counter,
     files0 |-> p.filenames, files1 |-> r.pickler.filenames,
     written |-> SubSeq(r.pickler.file, Len(p.file) + 1, Len(r.pickler.file))]

Saved(id, r) ==
    /\ pickler' = [r.pickler EXCEPT !.pos = @ + 1]
    /\ disk' = r.disk
    /\ log' = Append(log, LogEntry(pickler, id, r))

\* NumpyPickler.save(obj) for the event e
SaveEvent(e) ==
    IF e[1] = "arr" /\ IsArrayType(Arrays[e[2]].type)
    THEN \E outcome \in {"ok", "raise", "partial"} :
         /\ outcome # "ok" =>
                /\ ~KeepInline(args.compress, args.cache_size, Arrays[e[2]])
                /\ Cardinality({i \in 1..Len(log) : log[i].raised}) < MaxRaises
         /\ Saved(e[2], SaveArray(pickler, disk, Arrays[e[2]], e[2], outcome))
    ELSE /\ pickler' = [pickler EXCEPT
                            !.file = @ \o PickleEvent(e),
                            !.memo = IF e[1] = "open"
                                     THEN Append(@, <<"c", pickler.pos>>)
                                     ELSE @,
                            !.pos = @ + 1]
         /\ UNCHANGED <<disk, log>>

\* one call of NumpyPickler.save
Save ==
    /\ pc = "saving"
    /\ pickler.pos <= Len(TheEvents)
    /\ SaveEvent(TheEvents[pickler.pos])
    /\ UNCHANGED <<pc, args, dumpret, cut, handles, unpickler, heap, loadret,
                   zvars>>

\* NumpyPickler.close(): the content of the main file
close(p, compress) ==
    IF compress # 0 THEN write_zfile(Bytes(p.file), compress) ELSE p.file

\* the end of dump: Pickler.dump writes STOP, the pickler is closed, the
\* list of file names is returned
DumpFinish ==
    /\ pc = "saving"
    /\ pickler.pos > Len(TheEvents)
    /\ pickler' = [pickler EXCEPT !.file = Append(@, Op("STOP"))]
    /\ disk' = (args.filename :> close(pickler', args.compress)) @@ disk
    /\ dumpret' = pickler.filenames
    /\ pc' = "dumped"
    /\ UNCHANGED <<args, log, cut, handles, unpickler, heap, loadret, zvars>>

(***************************************************************************)
(* Between dump and load a Z-file of the manifest may lose the end of its  *)
(* compressed body.                                                        *)
(***************************************************************************)
IsZFile(f) == read_magic(f) = ZFILE_PREFIX

Truncate ==
    /\ pc = "dumped"
    /\ cut = <<>>
    /\ \E i \in 1..Len(dumpret), k \in 1..MaxTrunc :
        /\ IsZFile(disk[dumpret[i]])
        /\ k <= Len(disk[dumpret[i]]) - ZHeaderLen
        /\ disk' = [disk EXCEPT ![dumpret[i]] = Truncated(@, k)]
        /\ cut' = <<[name |-> dumpret[i], k |-> k]>>
    /\ UNCHANGED <<pc, args, pickler, log, dumpret, handles, unpickler, heap,
                   loadret, zvars>>

(***************************************************************************)
(* The placeholders' read methods.  Each gives [ok, err, array, handle]:   *)
(* the array or the exception, and the file handle it leaves behind.       *)
(***************************************************************************)
Handle(name, open, live) == [name |-> name, open |-> open, live |-> live]

ReadOk(array, h) == [ok |-> TRUE, err |-> "", array |-> array, handle |-> h]
ReadErr(e, h) == [ok |-> FALSE, err |-> e, array |-> Idle, handle |-> h]

\* numpy.core.multiarray._reconstruct(subtype, shape, dtype): an array that
\* is still to be given its state
reconstruct(subtype, shape, dtype) ==
    [type |-> subtype, shape |-> shape, dtype |-> dtype, forder |-> FALSE,
     seed |-> -1, mem |-> [i \in 1..(IF Len(shape) = 1 THEN shape[1]
                                     ELSE shape[1] * shape[2]) |-> 0]]

\* numpy.load(filename) on a file of content f
np_load(f) ==
    [type |-> "ndarray", shape |-> f[1][2], dtype |-> f[1][4],
     forder |-> f[1][3], seed |-> -1,
     mem |-> BytesElems(Tail(f), Itemsize(f[1][4]))]

\* NDArrayWrapper.read(unpickler) from the joined name on; numpy.load opens
\* the file and closes it.  new_array.__array_prepare__(array) gives a view
\* of array of the type of new_array and leaves new_array as it is, and it
\* is new_array that read returns
NDArrayWrapper_load(state, filename, d) ==
    IF filename \notin DOMAIN d THEN ReadErr("IOError", <<>>)
    ELSE IF d[filename] = <<>> \/ d[filename][1][1] # "npy"
    THEN ReadErr("ValueError", <<Handle(filename, FALSE, FALSE)>>)
    ELSE ReadOk(IF state.subclass \notin {"ndarray", "memmap"}
                THEN reconstruct(state.subclass, <<0>>, "b")
                ELSE np_load(d[filename]),
                <<Handle(filename, FALSE, FALSE)>>)

\* NDArrayWrapper.read(unpickler)
NDArrayWrapper_read(state, dir, d) ==
    NDArrayWrapper_load(state, join(dir, state.filename), d)

\* array.__setstate__(state) with state = (version, shape, dtype,
\* is_f_order, rawdata): an array of one dimension is both C and Fortran
\* contiguous
setstate(a, state) ==
    [a EXCEPT !.shape = state[2], !.dtype = state[3],
              !.forder = state[4] /\ Len(state[2]) > 1, !.mem = <<>>]

\* array.resize(shape): the strides are those of the order of the array
resize(a, shape) ==
    [a EXCEPT !.shape = shape,
              !.mem = [i \in 1..(IF Len(shape) = 1 THEN shape[1]
                                 ELSE shape[1] * shape[2]) |-> 0]]

\* array.data = memoryview(read_zfile(...)): the buffer z becomes the memory
\* of the array; h is the handle read_zfile was given
set_data(array, z, h) ==
    IF ~z.ok THEN ReadErr(z.err, h)
    ELSE IF Len(z.buf) # Nbytes(array) THEN ReadErr("AttributeError", h)
    ELSE ReadOk([array EXCEPT !.mem = BytesElems(z.buf, Itemsize(array.dtype))],
                h)

\* ZNDArrayWrapper.read(unpickler) from the joined name on; the file it
\* opens for read_zfile is never closed
ZNDArrayWrapper_load(state, filename, d) ==
    IF filename \notin DOMAIN d THEN ReadErr("IOError", <<>>)
    ELSE set_data(resize(setstate(reconstruct(state.init_args[1],
                                              state.init_args[2],
                                              state.init_args[3]),
                                  state.state),
                         state.init_args[2]),
                  read_zfile(d[filename]),
                  <<Handle(filename, TRUE, FALSE)>>)

\* ZNDArrayWrapper.read(unpickler)
ZNDArrayWrapper_read(state, dir, d) ==
    ZNDArrayWrapper_load(state, join(dir, state.filename), d)

IsPlaceholder(obj) == obj[1] \in {"NDArrayWrapper", "ZNDArrayWrapper"}

\* nd_array_wrapper.read(self)
read(obj, dir, d) ==
    IF obj[1] = "ZNDArrayWrapper" THEN ZNDArrayWrapper_read(obj[2], dir, d)
    ELSE NDArrayWrapper_read(obj[2], dir, d)

(***************************************************************************)
(* load.  The unpickler is a stack machine: the heap holds the objects it  *)
(* has built, the stack and the memo hold references into the heap (0 on   *)
(* the stack is the mark).  A heap object is <<"int", n>>, <<"str", s>>,   *)
(* <<"list", refs>>, <<"dict", <<key, ref>> pairs>>, <<"state", s>>,       *)
(* <<"array", a>>, or a placeholder <<class, state>>.                      *)
(***************************************************************************)
\* the position of the topmost mark of the stack
LastMark(stack) ==
    CHOOSE i \in 1..Len(stack) :
        stack[i] = 0 /\ \A j \in (i + 1)..Len(stack) : stack[j] # 0

Pairs(h, refs) ==
    [i \in 1..(Len(refs) \div 2) |-> <<h[refs[2 * i - 1]][2], refs[2 * i]>>]

Push(u, h, obj) ==
    [u |-> [u EXCEPT !.stack = Append(@, Len(h) + 1), !.ip = @ + 1],
     heap |-> Append(h, obj), handle |-> <<>>, err |-> ""]

Step(u, h) == [u |-> [u EXCEPT !.ip = @ + 1], heap |-> h, handle |-> <<>>,
               err |-> ""]

Raise(u, h, e, handle) == [u |-> u, heap |-> h, handle |-> handle, err |-> e]

\* Unpickler.load_build(self): the state on top of the stack is given to the
\* object under it
Unpickler_load_build(u, h) ==
    LET state == h[u.stack[Len(u.stack)]][2]
        inst == u.stack[Len(u.stack) - 1]
    IN [Step(u, h) EXCEPT
          !.u.stack = SubSeq(u.stack, 1, Len(u.stack) - 1),
          !.heap = [h EXCEPT ![inst] =
                       IF h[inst][1] = "array"
                       THEN <<"array", [state EXCEPT !.type = h[inst][2].type]>>
                       ELSE <<h[inst][1], state>>]]

\* self.stack.append(array) after the pop of the placeholder: r is what its
\* read gave, g the unpickler after Unpickler.load_build
stack_append(u, h, g, r) ==
    IF ~r.ok THEN Raise(u, h, r.err, r.handle)
    ELSE [g EXCEPT
            !.u.stack = Append(SubSeq(g.u.stack, 1, Len(g.u.stack) - 1),
                               Len(g.heap) + 1),
            !.heap = Append(g.heap, <<"array", r.array>>),
            !.handle = r.handle]

\* load_build without its hook: what Unpickler.load_build left
build_hook_skip(u, h, d, g) == g

\* the hook of NumpyUnpickler.load_build: a placeholder on top of the stack
\* is popped, read, and the array is pushed
build_hook(u, h, d, g) ==
    IF IsPlaceholder(g.heap[g.u.stack[Len(g.u.stack)]])
    THEN stack_append(u, h, g,
                      read(g.heap[g.u.stack[Len(g.u.stack)]], u.dirname, d))
    ELSE g

\* NumpyUnpickler.load_build(self)
load_build(u, h, d) == build_hook(u, h, d, Unpickler_load_build(u, h))

\* one instruction of the pickle
Dispatch(u, h, d) ==
    LET op == u.file[u.ip]
        stack == u.stack
    IN IF op[1] # "op" THEN Raise(u, h, "UnpicklingError", <<>>)
       ELSE IF op[2] = "PROTO" THEN Step(u, h)
       ELSE IF op[2] = "INT" THEN Push(u, h, <<"int", op[3]>>)
       ELSE IF op[2] = "STR" THEN Push(u, h, <<"str", op[3]>>)
       ELSE IF op[2] = "EMPTY_LIST" THEN Push(u, h, <<"list", <<>>>>)
       ELSE IF op[2] = "EMPTY_DICT" THEN Push(u, h, <<"dict", <<>>>>)
       ELSE IF op[2] = "NEWOBJ" THEN Push(u, h, <<op[3], Idle>>)
       ELSE IF op[2] = "REDUCE"
       THEN Push(u, h, <<"array", reconstruct(op[3], <<0>>, "b")>>)
       ELSE IF op[2] = "STATE" THEN Push(u, h, <<"state", op[3]>>)
       ELSE IF op[2] = "MARK"
       THEN [Step(u, h) EXCEPT !.u.stack = Append(stack, 0)]
       ELSE IF op[2] = "MEMOIZE"
       THEN [Step(u, h) EXCEPT !.u.memo = Append(@, stack[Len(stack)])]
       ELSE IF op[2] = "GET"
       THEN [Step(u, h) EXCEPT !.u.stack = Append(stack, u.memo[op[3]])]
       ELSE IF op[2] \in {"APPENDS", "SETITEMS"}
       THEN LET m == LastMark(stack)
                items == SubSeq(stack, m + 1, Len(stack))
                into == stack[m - 1]
            IN [Step(u, h) EXCEPT
                  !.u.stack = SubSeq(stack, 1, m - 1),
                  !.heap = [h EXCEPT ![into] =
                      <<@[1], @[2] \o (IF op[2] = "APPENDS" THEN items
                                       ELSE Pairs(h, items))>>]]
       ELSE IF op[2] = "BUILD" THEN load_build(u, h, d)
       ELSE Raise(u, h, "UnpicklingError", <<>>)

RECURSIVE Deref(_, _, _)
\* the value the reference r stands for; depth bounds the recursion
Deref(h, r, depth) ==
    IF depth = 0 \/ h[r][1] \notin {"list", "dict"} THEN h[r]
    ELSE IF h[r][1] = "list"
    THEN <<"list", [i \in 1..Len(h[r][2]) |-> Deref(h, h[r][2][i], depth - 1)]>>
    ELSE <<"dict", [i \in 1..Len(h[r][2]) |->
                       <<h[r][2][i][1], Deref(h, h[r][2][i][2], depth - 1)>>]>>

\* the deepest nesting of the values
MaxDepth == 3

LoadOk(obj) == [ok |-> TRUE, err |-> "", obj |-> obj]
LoadErr(e) == [ok |-> FALSE, err |-> e, obj |-> Idle]

\* NumpyUnpickler.__init__(filename, file_handle): file is what _open_pickle
\* gave, file_handle what the unpickler keeps as self.file_handle
NumpyUnpickler(filename, file, file_handle) ==
    [filename |-> basename(filename), dirname |-> dirname(filename),
     file |-> file, file_handle |-> file_handle, closed |-> FALSE,
     ip |-> 1, stack |-> <<>>, memo |-> <<>>]

\* ZipNumpyUnpickler(filename, file_handle): _open_pickle gives a BytesIO of
\* what read_zfile returned (z); when read_zfile raises, so does load,
\* before its try statement
ZipNumpyUnpickler(z) ==
    IF ~z.ok
    THEN /\ handles' = <<Handle(args.filename, TRUE, FALSE)>>
         /\ loadret' = LoadErr(z.err)
         /\ pc' = "returned"
         /\ UNCHANGED unpickler
    ELSE /\ unpickler' = NumpyUnpickler(args.filename, z.buf, "BytesIO")
         /\ handles' = <<Handle(args.filename, TRUE, TRUE)>>
         /\ pc' = "loading"
         /\ UNCHANGED loadret

\* load up to the call of unpickler.load(): the main file is opened, its
\* magic is read and the unpickler is made
LoadOpen ==
    /\ pc = "dumped"
    /\ IF IsZFile(disk[args.filename])
       THEN ZipNumpyUnpickler(read_zfile(disk[args.filename]))
       ELSE /\ unpickler' = NumpyUnpickler(args.filename, disk[args.filename],
                                           "file")
            /\ handles' = <<Handle(args.filename, TRUE, TRUE)>>
            /\ pc' = "loading"
            /\ UNCHANGED loadret
    /\ UNCHANGED <<args, pickler, disk, log, dumpret, cut, heap, zvars>>

\* the finally clause of load: unpickler.file_handle.close(); then load
\* returns or raises, and nothing refers to its handles any more
Finally(hs, u) ==
    [i \in 1..Len(hs) |->
        [hs[i] EXCEPT !.live = FALSE,
                      !.open = @ /\ ~(i = 1 /\ u.file_handle = "file")]]

\* what an instruction leaves (r): the next state of the unpickler, or the
\* exception, the finally clause and the end of load
Dispatched(r) ==
    IF r.err = ""
    THEN /\ unpickler' = r.u
         /\ heap' = r.heap
         /\ handles' = handles \o r.handle
         /\ UNCHANGED <<pc, loadret>>
    ELSE /\ unpickler' = [unpickler EXCEPT !.closed = TRUE]
         /\ handles' = Finally(handles \o r.handle, unpickler)
         /\ loadret' = LoadErr(r.err)
         /\ pc' = "returned"
         /\ UNCHANGED heap

\* one instruction of unpickler.load(); an exception ends load
LoadStep ==
    /\ pc = "loading"
    /\ unpickler.ip <= Len(unpickler.file)
    /\ unpickler.file[unpickler.ip] # Op("STOP")
    /\ Dispatched(Dispatch(unpickler, heap, disk))
    /\ UNCHANGED <<args, pickler, disk, log, dumpret, cut, zvars>>

\* STOP (or the end of the file, an EOFError), the finally clause and the
\* return of load
LoadFinish ==
    /\ pc = "loading"
    /\ \/ unpickler.ip > Len(unpickler.file)
       \/ unpickler.file[unpickler.ip] = Op("STOP")
    /\ unpickler' = [unpickler EXCEPT !.closed = TRUE]
    /\ handles' = Finally(handles, unpickler)
    /\ loadret' = IF unpickler.ip > Len(unpickler.file) THEN LoadErr("EOFError")
                  ELSE LoadOk(Deref(heap, unpickler.stack[Len(unpickler.stack)],
                                    MaxDepth))
    /\ pc' = "returned"
    /\ UNCHANGED <<args, pickler, disk, log, dumpret, cut, heap, zvars>>

\* the garbage collector finalizes the file objects nothing refers to: it
\* closes them, at a time of its own
Finalize ==
    /\ pc \in {"loading", "returned"}
    /\ \E i \in 1..Len(handles) : handles[i].open /\ ~handles[i].live
    /\ handles' = [i \in 1..Len(handles) |->
                      [handles[i] EXCEPT !.open = @ /\ handles[i].live]]
    /\ UNCHANGED <<pc, args, pickler, disk, log, dumpret, cut, unpickler, heap,
                   loadret, zvars>>

Next ==
    \/ DumpStart
    \/ Save
    \/ DumpFinish
    \/ Truncate
    \/ LoadOpen
    \/ LoadStep
    \/ LoadFinish
    \/ Finalize

Spec == Init /\ [][Next]_vars

(***************************************************************************)
(* dump (Spec).  The log has one entry per save step of an array.          *)
(***************************************************************************)
\* the save steps whose array went to a file of its own, and those whose
\* write of the file raised
Succeeded == {i \in 1..Len(log) : log[i].route = "extern" /\ ~log[i].raised}
Failed == {i \in 1..Len(log) : log[i].raised}

\* compression is off, or the byte size of a reaches cache_size * 2^20
MustRedirect(a) ==
    args.compress = 0 \/ Size(a) * Itemsize(a.dtype) >= args.cache_size * Pow(2, 20)

\* the instructions ops build a placeholder
HasPlaceholder(ops) == \E i \in 1..Len(ops) : ops[i][2] = "NEWOBJ"

\* the instructions ops are the array of index id itself: its pickle, or a
\* reference to it when it was pickled before
IsInline(ops, a, id) ==
    \/ ops = <<Op1("REDUCE", IF a.type = "memmap" THEN "ndarray" ELSE a.type),
               Op("MEMOIZE"),
               Op1("STATE", IF a.type = "memmap"
                            THEN [a EXCEPT !.type = "ndarray"] ELSE a),
               Op("BUILD")>>
    \/ ops = <<Op1("REDUCE", a.type), Op("MEMOIZE"), Op1("STATE", a),
               Op("BUILD")>>
    \/ /\ Len(ops) = 1 /\ ops[1][2] = "GET"
       /\ pickler.memo[ops[1][3]] = <<"a", id>>

EndsWith(name, suffix) ==
    /\ Len(name) >= Len(suffix)
    /\ SubSeq(name, Len(name) - Len(suffix) + 1, Len(name)) = suffix

\* the step e added exactly one file name to the list, the file is on the
\* disk, and a placeholder was pickled in place of the array
OneSibling(e) ==
    /\ Len(e.files1) = Len(e.files0) + 1
    /\ SubSeq(e.files1, 1, Len(e.files0)) = e.files0
    /\ e.files1[Len(e.files1)] \in DOMAIN disk
    /\ args.compress # 0 => EndsWith(e.files1[Len(e.files1)], <<".", "z">>)
    /\ HasPlaceholder(e.written)

\* the step e added no file name, and the array itself was pickled
NoSibling(e) ==
    /\ e.files1 = e.files0
    /\ IsInline(e.written, Arrays[e.id], e.id)

\* C3 as amended: an array goes to a sibling file if and only if compression
\* is off or its byte size is >= cache_size * 2^20, provided the write of the
\* sibling does not raise; then exactly one file name is added (ending in .z
\* under compression).  A smaller array under compression, an array whose
\* write raised, and every node that is no array add no file name and are
\* pickled inline.
C3_Redirect ==
    pc \in {"saving", "dumped"} =>
        /\ Len(pickler.filenames) = 1 + Cardinality(Succeeded)
        /\ \A i \in 1..Len(log) :
            IF MustRedirect(Arrays[log[i].id]) /\ ~log[i].raised
            THEN OneSibling(log[i])
            ELSE NoSibling(log[i])

\* an array of exactly cache_size * 2^20 bytes went to a .z file
C3_Witness ==
    /\ pc = "dumped" /\ args.compress # 0
    /\ \E i \in 1..Len(log) :
        /\ Nbytes(Arrays[log[i].id]) = args.cache_size * Pow(2, 20)
        /\ ~log[i].raised
        /\ OneSibling(log[i])

\* C3 as stated: an array goes to a sibling file if and only if compression
\* is off or its byte size is >= cache_size * 2^20, and then exactly one
\* sibling file comes of it.
C3_Original ==
    pc \in {"saving", "dumped"} =>
        \A i \in 1..Len(log) :
            IF MustRedirect(Arrays[log[i].id])
            THEN OneSibling(log[i])
            ELSE NoSibling(log[i])

\* C4: when dump returns, the list has 1 + n file names, n the number of
\* arrays that went to a file of their own (as many as the pickle has
\* placeholders), the first is the main file, and every file is on the disk.
C4_Manifest ==
    pc = "dumped" =>
        /\ Len(dumpret) = 1 + Cardinality(Succeeded)
        /\ Len(dumpret) = 1 + Cardinality({i \in 1..Len(pickler.file) :
                                              pickler.file[i][2] = "NEWOBJ"})
        /\ dumpret[1] = args.filename
        /\ \A i \in 1..Len(dumpret) : dumpret[i] \in DOMAIN disk

\* dump has returned the main file and a sibling, and a write had raised
C4_Witness ==
    /\ pc = "dumped" /\ Len(dumpret) = 2 /\ Failed # {}
    /\ \A i \in 1..Len(dumpret) : dumpret[i] \in DOMAIN disk

\* C6: a save step whose write of the sibling raised leaves the counter and
\* the list of file names as they were and pickles the array itself, and the
\* dump goes on: every array of the value gets its step, and dump returns
\* the list.
C6_Fallback ==
    /\ \A i \in Failed :
        /\ log[i].counter1 = log[i].counter0
        /\ log[i].files1 = log[i].files0
        /\ ~HasPlaceholder(log[i].written)
        /\ IsInline(log[i].written, Arrays[log[i].id], log[i].id)
        /\ pickler.pos > log[i].pos
    /\ pc = "dumped" =>
        /\ Len(log) = Cardinality({j \in 1..Len(TheEvents) :
                                      TheEvents[j][1] = "arr"})
        /\ pickler.pos = Len(TheEvents) + 1
        /\ dumpret = pickler.filenames

\* dump has returned after a write raised for an array that came after one
\* that went to its file
C6_Witness ==
    /\ pc = "dumped"
    /\ \E i \in Failed : log[i].counter0 > 0 /\ i < Len(log)

\* k as two decimal digits
TwoDigits(k) ==
    <<SubSeq(<<"0", "1", "2", "3", "4", "5", "6", "7", "8", "9">>,
             (k \div 10) + 1, (k \div 10) + 1)[1],
      SubSeq(<<"0", "1", "2", "3", "4", "5", "6", "7", "8", "9">>,
             (k % 10) + 1, (k % 10) + 1)[1]>>

\* C7: whatever steps succeeded and failed, the file names of the list are
\* pairwise distinct, the counter is the number of arrays that went to their
\* file, and the k-th sibling is <path>_<k on 2 digits>.npy, with .z after it
\* under compression.
C7_Names ==
    pc \in {"saving", "dumped"} =>
        /\ \A i, j \in 1..Len(pickler.filenames) :
               i # j => pickler.filenames[i] # pickler.filenames[j]
        /\ pickler.npy_counter = Cardinality(Succeeded)
        /\ pickler.npy_counter = Len(pickler.filenames) - 1
        /\ \A k \in 1..(Len(pickler.filenames) - 1) :
               pickler.filenames[k + 1] =
                   args.filename \o <<"_">> \o TwoDigits(k)
                   \o <<".", "n", "p", "y">>
                   \o (IF args.compress # 0 THEN <<".", "z">> ELSE <<>>)

\* ten siblings and more are on the list, and writes have raised
C7_Witness ==
    /\ pc = "dumped" /\ Len(pickler.filenames) > 10 /\ Failed # {}

\* C8 as amended: the dict {"a": [1, 2, 3], "arr": <float64 (1000, 1000)>}
\* dumped with compress=5 and the default cache size yields 1 file, the main
\* file: the 8,000,000 bytes of the array are below the threshold of
\* 100 * 2^20 bytes, and the array is pickled inline.
C8_OneFile ==
    pc = "dumped" /\ args.value = ScenarioDict /\ args.compress = 5
    /\ args.cache_size = 100 =>
        /\ dumpret = <<args.filename>>
        /\ Len(log) = 1 /\ NoSibling(log[1])
        /\ Nbytes(Arrays[log[1].id]) < args.cache_size * Pow(2, 20)

\* the dump of the dict has returned
C8_Witness ==
    /\ pc = "dumped" /\ args.value = ScenarioDict /\ args.compress = 5
    /\ args.cache_size = 100 /\ log[1].id = BigArray

\* C8 as stated: that dump yields 2 files, the main file and one sibling.
C8_Original ==
    pc = "dumped" /\ args.value = ScenarioDict /\ args.compress = 5
    /\ args.cache_size = 100 =>
        Len(dumpret) = 2

(***************************************************************************)
(* load (Spec).                                                            *)
(***************************************************************************)
\* the arrays a and b are equal in shape, dtype and values
ArrayEq(a, b) ==
    \/ [a EXCEPT !.type = b.type] = b
    \/ a.shape = b.shape /\ a.dtype = b.dtype /\ Flat(a) = Flat(b)

RECURSIVE ValueEq(_, _)
\* the loaded object o is the value v, array for array
ValueEq(v, o) ==
    IF v[1] = "arr" THEN o[1] = "array" /\ ArrayEq(Arrays[v[2]], o[2])
    ELSE IF v[1] = "list"
    THEN /\ o[1] = "list" /\ Len(o[2]) = Len(v[2])
         /\ \A i \in 1..Len(v[2]) : ValueEq(v[2][i], o[2][i])
    ELSE IF v[1] = "dict"
    THEN /\ o[1] = "dict" /\ Len(o[2]) = Len(v[2])
         /\ \A i \in 1..Len(v[2]) :
                o[2][i][1] = v[2][i][1] /\ ValueEq(v[2][i][2], o[2][i][2])
    ELSE o = v

\* C2: dump of a value with arrays (compress=0, or a level in 1..9) followed
\* by load of the files as dump left them gives arrays equal to the
\* originals in values, dtype and shape.
C2_ArrayRoundTrip ==
    pc = "returned" /\ cut = <<>> =>
        loadret.ok /\ ValueEq(args.value, loadret.obj)

\* C9: every file handle load has opened is closed when load has returned
\* or raised, and every sibling file is closed before the next is opened.
C9_HandlesClosed ==
    /\ pc = "returned" => \A i \in 1..Len(handles) : ~handles[i].open
    /\ pc \in {"loading", "returned"} =>
           \A i \in 2..(Len(handles) - 1) : ~handles[i].open

RECURSIVE NoPlaceholder(_)
\* the loaded object o holds no placeholder
NoPlaceholder(o) ==
    IF o[1] = "list" THEN \A i \in 1..Len(o[2]) : NoPlaceholder(o[2][i])
    ELSE IF o[1] = "dict"
    THEN \A i \in 1..Len(o[2]) : NoPlaceholder(o[2][i][2])
    ELSE o[1] \notin {"NDArrayWrapper", "ZNDArrayWrapper"}

\* the heap object of reference r is a placeholder that has its state
Built(r) ==
    /\ r # 0
    /\ heap[r][1] \in {"NDArrayWrapper", "ZNDArrayWrapper"}
    /\ DOMAIN heap[r][2] # {}

\* no placeholder that has its state is on the stack, in a list or in a dict, and
\* what load returns holds none
C10_State ==
    /\ pc = "loading" =>
        /\ \A i \in 1..Len(unpickler.stack) : ~Built(unpickler.stack[i])
        /\ \A r \in 1..Len(heap) :
               /\ heap[r][1] = "list" =>
                      \A i \in 1..Len(heap[r][2]) : ~Built(heap[r][2][i])
               /\ heap[r][1] = "dict" =>
                      \A i \in 1..Len(heap[r][2]) : ~Built(heap[r][2][i][2])
    /\ pc = "returned" /\ loadret.ok => NoPlaceholder(loadret.obj)

\* a BUILD instruction that ends normally pops the state and nothing else:
\* a placeholder under it has given its place to an array
C10_Build ==
    /\ pc = "loading" /\ pc' = "loading"
    /\ unpickler.ip <= Len(unpickler.file)
    /\ unpickler.file[unpickler.ip] = Op("BUILD")
    /\ unpickler'.ip = unpickler.ip + 1
    => /\ Len(unpickler'.stack) = Len(unpickler.stack) - 1
       /\ heap[unpickler.stack[Len(unpickler.stack) - 1]][1]
              \in {"NDArrayWrapper", "ZNDArrayWrapper"}
          => heap'[unpickler'.stack[Len(unpickler'.stack)]][1] = "array"

\* C10: what load returns holds no placeholder: each BUILD instruction
\* replaces a placeholder on top of the stack by its array, the depth of the
\* stack being what Unpickler.load_build left, and no placeholder comes
\* back later.
C10_NoPlaceholder == []C10_State /\ [][C10_Build]_vars

\* load has returned a list of two references to one array, each read from
\* a sibling file of its own
C10_Witness ==
    /\ pc = "returned" /\ loadret.ok
    /\ Len(args.value[2]) = 2 /\ args.value[2][1] = args.value[2][2]
    /\ args.value[2][1][1] = "arr"
    /\ Len(handles) = 3
    /\ NoPlaceholder(loadret.obj)

(***************************************************************************)
(* The Z-file container (SpecZ).                                           *)
(***************************************************************************)
\* C1: for every payload (empty, shorter than a chunk, a whole number of
\* chunks, or not) and every level 0..9, read_zfile of what write_zfile
\* wrote returns the payload itself.
C1_RoundTrip ==
    zpc = "read" /\ zcut = 0 => zres = ZOk(zdata)

\* a payload of exactly one chunk, written at level 9, has been read back
C1_Witness ==
    /\ zpc = "read" /\ zcut = 0 /\ zlevel = 9
    /\ Len(zdata) = CHUNK_SIZE /\ zres.ok

\* C5: a Z-file that lost bytes of the end of its compressed body is never
\* accepted: read_zfile fails on it.
C5_TruncationRejected ==
    zpc = "read" /\ zcut > 0 => ~zres.ok

=============================================================================
